---- MODULE Spec2Model ----
(***************************************************************************)
(* Model of the S3 entropy scanner (scanner.py): the entropy scorer, the   *)
(* per-object line scanner S3Scanner.scan_object, the thread-pool           *)
(* coordinator S3Scanner.run and the exporter S3Scanner.export_results.     *)
(*                                                                         *)
(* Text is a sequence of one-character strings.  Entropy is kept in        *)
(* micro-bits (bits * 10^6); a Finding's rounded entropy is kept in        *)
(* centi-bits (bits * 100), and the threshold in micro-bits.               *)
(***************************************************************************)
EXTENDS Integers, Sequences, FiniteSets, TLC

\* ------------------------------------------------------------------ bounds
MaxPages == 2      \* pages the listing is split into
MaxClock == 1      \* instants the clock can reach
MaxDataLen == 6    \* length of the mixed strings given to the scorer

\* ------------------------------------------------------- program constants
ReadCap == 1048576     \* response['Body'].read(1024 * 1024)
MinLineLen == 10       \* len(clean_line) < 10
PreviewLen == 15       \* clean_line[:15]
DefaultThreads == 10   \* threads: int = 10
DefaultThreshold == 4500000   \* --threshold default=4.5, in micro-bits

Ellipsis == <<".",".",".">>

SkipExts ==
    { <<".","p","n","g">>, <<".","j","p","g">>, <<".","p","d","f">>,
      <<".","e","x","e">>, <<".","z","i","p">>, <<".","g","z">>,
      <<".","t","a","r">> }

\* ------------------------------------------------------------ text helpers
UpperAlpha ==
    <<"A","B","C","D","E","F","G","H","I","J","K","L","M","N","O","P","Q","R",
      "S","T","U","V","W","X","Y","Z">>

LowerAlpha ==
    <<"a","b","c","d","e","f","g","h","i","j","k","l","m","n","o","p","q","r",
      "s","t","u","v","w","x","y","z">>

\* str.lower() on one character
LowerChar(c) ==
    IF \E i \in DOMAIN UpperAlpha : UpperAlpha[i] = c
    THEN LowerAlpha[CHOOSE i \in DOMAIN UpperAlpha : UpperAlpha[i] = c]
    ELSE c

\* str.lower()
Lower(s) == [i \in DOMAIN s |-> LowerChar(s[i])]

\* str.endswith(ext)
EndsWith(s, ext) ==
    /\ Len(ext) <= Len(s)
    /\ SubSeq(s, Len(s) - Len(ext) + 1, Len(s)) = ext

\* any(key.endswith(ext) for ext in [...]): the key not lower-cased
IsSkippedCaseSensitive(key) == \E ext \in SkipExts : EndsWith(key, ext)

\* any(key.lower().endswith(ext) for ext in [...])
IsSkipped(key) == \E ext \in SkipExts : EndsWith(Lower(key), ext)

\* bytes that are not valid UTF-8 and that decode(errors='ignore') drops
InvalidBytes == {"\\x89", "\\xff"}

\* body.decode('utf-8', errors='ignore')
Decode(body) == SelectSeq(body, LAMBDA b : b \notin InvalidBytes)

\* response['Body'].read(1024 * 1024)
ReadBody(body) ==
    SubSeq(body, 1, IF Len(body) < ReadCap THEN Len(body) ELSE ReadCap)

LineBreaks == {"\n", "\r", "\f"}

Whitespace == {" ", "\t", "\n", "\r", "\f"}

\* index of the first line break of s, or Len(s) + 1
FirstBreak(s) ==
    IF \E i \in DOMAIN s : s[i] \in LineBreaks
    THEN CHOOSE i \in DOMAIN s :
            /\ s[i] \in LineBreaks
            /\ \A j \in 1..(i - 1) : s[j] \notin LineBreaks
    ELSE Len(s) + 1

\* str.splitlines(): "\r\n" is one break, no empty line after a final break
SplitLines[s \in Seq(STRING)] ==
    IF s = <<>> THEN <<>>
    ELSE LET i == FirstBreak(s) IN
         IF i > Len(s) THEN <<s>>
         ELSE LET skip == IF s[i] = "\r" /\ i < Len(s) /\ s[i + 1] = "\n"
                          THEN 2 ELSE 1
              IN <<SubSeq(s, 1, i - 1)>>
                    \o SplitLines[SubSeq(s, i + skip, Len(s))]

\* str.strip()
Strip(s) ==
    LET keep == {i \in DOMAIN s : s[i] \notin Whitespace} IN
    IF keep = {} THEN <<>>
    ELSE LET lo == CHOOSE i \in keep : \A j \in keep : i <= j
             hi == CHOOSE i \in keep : \A j \in keep : j <= i
         IN SubSeq(s, lo, hi)

\* ---------------------------------------------------------- entropy scorer
\* math.log2(n) * 10^6 for n = 1..64
Log2Micro ==
    <<0, 1000000, 1584963, 2000000, 2321928, 2584963, 2807355, 3000000,
      3169925, 3321928, 3459432, 3584963, 3700440, 3807355, 3906891, 4000000,
      4087463, 4169925, 4247928, 4321928, 4392317, 4459432, 4523562, 4584963,
      4643856, 4700440, 4754888, 4807355, 4857981, 4906891, 4954196, 5000000,
      5044394, 5087463, 5129283, 5169925, 5209453, 5247928, 5285402, 5321928,
      5357552, 5392317, 5426265, 5459432, 5491853, 5523562, 5554589, 5584963,
      5614710, 5643856, 5672425, 5700440, 5727920, 5754888, 5781360, 5807355,
      5832890, 5857981, 5882643, 5906891, 5930737, 5954196, 5977280, 6000000>>

\* data.count(char)
CharCount(data, char) == Cardinality({i \in DOMAIN data : data[i] = char})

\* set(data)
CharSet(data) == {data[i] : i \in DOMAIN data}

\* for char in set(data): entropy -= p_x * math.log2(p_x), scaled by len(data)
SumTerms[data \in Seq(STRING), chars \in SUBSET STRING] ==
    IF chars = {} THEN 0
    ELSE LET c == CHOOSE x \in chars : TRUE
             n == CharCount(data, c)
         IN n * (Log2Micro[Len(data)] - Log2Micro[n])
               + SumTerms[data, chars \ {c}]

SumTermsDistinct[data \in Seq(STRING), chars \in SUBSET STRING] ==
    IF chars = {} THEN 0
    ELSE LET c == CHOOSE x \in chars : TRUE
             n == CharCount(data, c)
         IN n * (Log2Micro[Cardinality(CharSet(data))] - Log2Micro[n])
               + SumTermsDistinct[data, chars \ {c}]

\* p_x = counts[char] / len(counts): the number of distinct characters taken
\* for the length
calculate_shannon_entropy_distinct(data) ==
    IF data = <<>> THEN 0
    ELSE SumTermsDistinct[data, CharSet(data)]
            \div Cardinality(CharSet(data))

\* calculate_shannon_entropy(data), in micro-bits:
\* -sum (n/L) * log2(n/L)  =  (sum n * (log2 L - log2 n)) / L
calculate_shannon_entropy(data) ==
    IF data = <<>> THEN 0
    ELSE SumTerms[data, CharSet(data)] \div Len(data)

\* round(entropy, 2): micro-bits to centi-bits, ties to even
Round2(e) ==
    LET q == e \div 10000
        r == e % 10000
    IN IF r > 5000 \/ (r = 5000 /\ q % 2 = 1) THEN q + 1 ELSE q

\* clean_line[:15] + "..."
Preview(clean_line) ==
    SubSeq(clean_line, 1,
           IF Len(clean_line) < PreviewLen THEN Len(clean_line) ELSE PreviewLen)
       \o Ellipsis

\* ------------------------------------------------- the bucket under scan
Key_A == <<"A">>

Key_upper ==
    <<"D","U","M","P",".","T","A","R",".","G","Z">>

Key_clean ==
    <<"c","l","e","a","n",".","t","x","t">>

Key_image ==
    <<"i","m","a","g","e",".","p","n","g">>

Key_notes ==
    <<"n","o","t","e","s",".","z","i","p",".","t","x","t">>

Key_secret ==
    <<"s","e","c","r","e","t",".","t","x","t">>

Body_A == <<"s","h","o","r","t">>

\* one line of 24 distinct characters
Body_dump ==
    <<"0","1","2","3","4","5","6","7","8","9","a","b","c","d","e","f","g","h",
      "i","j","k","l","m","n","\n">>

Body_clean ==
    <<"T","h","i","s"," ","i","s"," ","a"," ","n","o","r","m","a","l"," ","t",
      "e","x","t"," ","f","i","l","e",".">>

Body_image ==
    <<"\\x89","P","N","G","\r","\n","\\x1a","\n">>

\* "short", an empty line, a padded line of 10 distinct characters, a line of
\* 16 distinct characters, a line scoring 2.125, a line of 17 distinct ones
Body_notes ==
    <<"s","h","o","r","t","\n","\n"," "," ","a","b","c","d","e","f","g","h","i",
      "j","\t","\r","\n","0","1","2","3","4","5","6","7","8","9","a","b",
      "c","d","e","f","\n","a","a","a","a","a","a","a","a","b","b","c","c",
      "d","d","e","f","\n","0","1","2","3","4","5","6","7","8","9","a","b",
      "c","d","e","f","g">>

Body_secret ==
    <<"e","x","p","o","r","t"," ","A","W","S","_","S","E","C","R","E","T","_",
      "A","C","C","E","S","S","_","K","E","Y","=","A","Q","w","9","2","3",
      "k","f","0","2","3","9","s","l","k","2","3","0","9","s","l","k","2",
      "3">>

\* the keys in the order list_objects_v2 returns them (UTF-8 binary order)
AllKeys == <<Key_A, Key_upper, Key_clean, Key_image, Key_notes, Key_secret>>

Keys == {AllKeys[i] : i \in DOMAIN AllKeys}

\* s3.put_object(Bucket=..., Key=..., Body=...)
Store ==
    [k \in Keys |->
        CASE k = Key_A      -> Body_A
          [] k = Key_upper  -> Body_dump
          [] k = Key_clean  -> Body_clean
          [] k = Key_image  -> Body_image
          [] k = Key_notes  -> Body_notes
          [] k = Key_secret -> Body_secret]

\* content.splitlines() of every stored object
StoredLines == [k \in Keys |-> SplitLines[Decode(ReadBody(Store[k]))]]

\* line.strip() of every stored line
StoredCleanLines ==
    UNION { {Strip(StoredLines[k][n]) : n \in DOMAIN StoredLines[k]} :
            k \in Keys }

\* calculate_shannon_entropy(clean_line) of every stored line
StoredScores == [s \in StoredCleanLines |-> calculate_shannon_entropy(s)]

\* --threshold, in micro-bits
Thresholds == {3320000, 4000000}

\* --threads
ThreadChoices == {1, 2}

\* --export
Formats == {"none", "json", "csv"}

\* the buckets scanned: an empty one, the two buckets of test_scanner.py, one
\* holding only skip-listed keys, one holding a too-short and a many-lined
\* object
Buckets ==
    { {},
      {Key_image},
      {Key_clean, Key_secret},
      {Key_upper, Key_image},
      {Key_A, Key_notes} }

\* the listing of a bucket, in key order
Listing(bucket) == SelectSeq(AllKeys, LAMBDA k : k \in bucket)

\* the ways the paginator can cut a listing into np pages
Cuts(n, np) ==
    {c \in [0..np -> 0..n] :
        /\ c[0] = 0
        /\ c[np] = n
        /\ \A j \in 1..np : c[j - 1] <= c[j]}

PagesOf(listing, c, np) ==
    [j \in 1..np |-> SubSeq(listing, c[j - 1] + 1, c[j])]

Layouts(bucket) ==
    UNION { {PagesOf(Listing(bucket), c, np) :
                c \in Cuts(Cardinality(bucket), np)} : np \in 1..MaxPages }

\* ------------------------------------------------------------------- state
VARIABLES
    broken,         \* keys whose get_object / read fails
    pages,          \* the pages paginator.paginate yields; <<>> = no 'Contents'
    threshold,      \* self.threshold
    threads,        \* self.threads
    export_format,  \* self.export_format
    results,        \* self.results
    pc,             \* where run() is
    error,          \* the exception run() is propagating
    pageNo,         \* pages consumed by the for loop
    cur,            \* position in page['Contents']
    futures,        \* the futures list of run(), with each future's state
    yielded,        \* futures as_completed has already yielded
    fetched,        \* keys get_object was called with
    files,          \* export artifacts written
    summary,        \* the count logged by "Scan complete"
    now,            \* the clock
    prev,           \* the scanner of the previous run, if any
    status,         \* the exit status of the process, -1 while it runs
    data,           \* the argument of a calculate_shannon_entropy call
    score           \* what that call returned, -1 before it returns

vars == <<broken, pages, threshold, threads, export_format, results,
          pc, error, pageNo, cur, futures, yielded, fetched, files, summary,
          now, prev, status, data, score>>

scorer == <<data, score>>

env == <<broken, pages>>

config == <<threshold, threads, export_format>>

NoPrev == [threads |-> 0, results |-> <<>>]

\* S3Scanner.__init__ plus the position of run() at its first statement
NewScanner ==
    /\ results = <<>>
    /\ pc = "paginate"
    /\ error = "none"
    /\ pageNo = 0
    /\ cur = 0
    /\ futures = <<>>
    /\ yielded = {}
    /\ fetched = {}
    /\ summary = -1

Init ==
    /\ \E bucket \in Buckets :
          /\ pages \in Layouts(bucket)
          /\ broken \in {b \in SUBSET bucket : Cardinality(b) <= 1}
    /\ threshold \in Thresholds
    /\ threads \in ThreadChoices
    /\ export_format \in Formats
    /\ NewScanner
    /\ files = {}
    /\ now = 0
    /\ prev = NoPrev
    /\ status = -1
    /\ data = <<>>
    /\ score = -1

\* ------------------------------------------------------------- scan_object
\* len(clean_line) <= 10
TooShortOffByOne(clean_line) ==
    clean_line = <<>> \/ Len(clean_line) <= MinLineLen

\* if not clean_line or len(clean_line) < 10: continue
TooShort(clean_line) == clean_line = <<>> \/ Len(clean_line) < MinLineLen

\* if entropy >= self.threshold
IsPositiveInclusive(entropy) == entropy >= threshold

\* if entropy > self.threshold
IsPositive(entropy) == entropy > threshold

\* the finding dict built for one line
Finding(key, line_no, entropy, clean_line) ==
    [key          |-> key,
     line         |-> line_no,
     entropy      |-> Round2(entropy),
     data_preview |-> Preview(clean_line),
     timestamp    |-> now]

\* findings.insert(0, finding): each Finding put before the earlier ones
RECURSIVE ScanLinesReversed(_, _, _)
ScanLinesReversed(key, lines, line_no) ==
    IF line_no > Len(lines) THEN <<>>
    ELSE LET clean_line == Strip(lines[line_no])
             entropy == StoredScores[clean_line]
             found == IF TooShort(clean_line) THEN <<>>
                      ELSE IF IsPositive(entropy)
                           THEN <<Finding(key, line_no, entropy, clean_line)>>
                           ELSE <<>>
         IN ScanLinesReversed(key, lines, line_no + 1) \o found

\* for line_no, line in enumerate(content.splitlines(), 1): ...
RECURSIVE ScanLines(_, _, _)
ScanLines(key, lines, line_no) ==
    IF line_no > Len(lines) THEN <<>>
    ELSE LET clean_line == Strip(lines[line_no])
             entropy == StoredScores[clean_line]
             found == IF TooShort(clean_line) THEN <<>>
                      ELSE IF IsPositive(entropy)
                           THEN <<Finding(key, line_no, entropy, clean_line)>>
                           ELSE <<>>
         IN found \o ScanLines(key, lines, line_no + 1)

\* scan_object without its try/except: a failed retrieval escapes
ScanObjectUncaught(key) ==
    IF IsSkipped(key)
    THEN [exception |-> FALSE, result |-> <<>>]
    ELSE IF key \in broken
         THEN [exception |-> TRUE, result |-> <<>>]
         ELSE [exception |-> FALSE,
               result |-> ScanLines(key, StoredLines[key], 1)]

\* what the worker's future holds when scan_object(key) is over
ScanObject(key) ==
    IF IsSkipped(key)
    THEN [exception |-> FALSE, result |-> <<>>]
    ELSE IF key \in broken
         THEN [exception |-> FALSE, result |-> <<>>]   \* except Exception
         ELSE [exception |-> FALSE,
               result |-> ScanLines(key, StoredLines[key], 1)]

\* the get_object calls scan_object(key) makes
GetCalls(key) == IF IsSkipped(key) THEN {} ELSE {key}

\* --------------------------------------------------------------------- run
Running == {i \in DOMAIN futures : futures[i].state = "RUNNING"}

Pending == {i \in DOMAIN futures : futures[i].state = "PENDING"}

Finished == {i \in DOMAIN futures : futures[i].state = "FINISHED"}

\* a pool that starts a thread for every work item
HasIdleWorkerUnbounded == TRUE

\* a pool that keeps one of its max_workers threads back
HasIdleWorkerOffByOne == Cardinality(Running) < threads - 1

\* ThreadPoolExecutor(max_workers=self.threads): a work item leaves the queue
\* only when one of the max_workers threads is idle
HasIdleWorker == Cardinality(Running) < threads

\* self.results = future.result()
ExtendOverwrites(rs, fs) == fs

\* self.results.extend(future.result())
Extend(rs, fs) == rs \o fs

\* the as_completed loop left after the first future
AllYieldedEarly == yielded # {} \/ futures = <<>>

\* as_completed(futures) is exhausted
AllYielded == yielded = DOMAIN futures

\* for page in paginator.paginate(...): the next page arrives
ListPage ==
    /\ pc = "paginate"
    /\ pageNo < Len(pages)
    /\ pageNo' = pageNo + 1
    /\ IF pages[pageNo + 1] = <<>>        \* 'Contents' not in page: continue
       THEN pc' = "paginate" /\ cur' = 0
       ELSE pc' = "submit" /\ cur' = 1
    /\ UNCHANGED <<scorer, status,
                   env, config, results, error, futures, yielded, fetched,
                   files, summary, now, prev>>

\* the listing error caught and the page loop left as if exhausted
ListFailSwallowed ==
    /\ pc = "paginate"
    /\ pageNo < Len(pages)
    /\ error' = "ClientError"
    /\ pc' = "as_completed"
    /\ UNCHANGED <<scorer, status,
                   env, config, results, pageNo, cur, futures, yielded,
                   fetched, files, summary, now, prev>>

\* the request for the next page raises; the with block is left
ListFail ==
    /\ pc = "paginate"
    /\ pageNo < Len(pages)
    /\ error' = "ClientError"
    /\ pc' = "shutdown"
    /\ UNCHANGED <<scorer, status,
                   env, config, results, pageNo, cur, futures, yielded,
                   fetched, files, summary, now, prev>>

\* the paginator is exhausted
ListEnd ==
    /\ pc = "paginate"
    /\ pageNo = Len(pages)
    /\ pc' = "as_completed"
    /\ UNCHANGED <<scorer, status,
                   env, config, results, error, pageNo, cur, futures, yielded,
                   fetched, files, summary, now, prev>>

\* futures.append(executor.submit(self.scan_object, obj['Key']))
Submit ==
    /\ pc = "submit"
    /\ futures' = Append(futures, [key       |-> pages[pageNo][cur],
                                   state     |-> "PENDING",
                                   exception |-> FALSE,
                                   result    |-> <<>>])
    /\ IF cur = Len(pages[pageNo])
       THEN pc' = "paginate" /\ cur' = 0
       ELSE pc' = "submit" /\ cur' = cur + 1
    /\ UNCHANGED <<scorer, status,
                   env, config, results, error, pageNo, yielded, fetched,
                   files, summary, now, prev>>

\* an idle worker thread takes the oldest queued work item
WorkerStart ==
    /\ Pending # {}
    /\ HasIdleWorker
    /\ LET i == CHOOSE p \in Pending : \A q \in Pending : p <= q
       IN futures' = [futures EXCEPT ![i].state = "RUNNING"]
    /\ UNCHANGED <<scorer, status,
                   env, config, results, pc, error, pageNo, cur, yielded,
                   fetched, files, summary, now, prev>>

\* scan_object ending with self.results.extend(findings) in the worker
WorkerFinishAppends ==
    \E i \in Running :
        LET out == ScanObject(futures[i].key) IN
        /\ futures' = [futures EXCEPT ![i].state = "FINISHED",
                                      ![i].exception = out.exception,
                                      ![i].result = out.result]
        /\ fetched' = fetched \cup GetCalls(futures[i].key)
        /\ results' = results \o out.result
        /\ UNCHANGED <<scorer, status, env, config, pc, error, pageNo, cur,
                       yielded, files, summary, now, prev>>

\* a worker thread runs scan_object(key) and sets the future's outcome
WorkerFinish ==
    \E i \in Running :
        LET out == ScanObject(futures[i].key) IN
        /\ futures' = [futures EXCEPT ![i].state = "FINISHED",
                                      ![i].exception = out.exception,
                                      ![i].result = out.result]
        /\ fetched' = fetched \cup GetCalls(futures[i].key)
        /\ UNCHANGED <<scorer, status,
                       env, config, results, pc, error, pageNo, cur, yielded,
                       files, summary, now, prev>>

\* for future in as_completed(futures): self.results.extend(future.result())
AsCompleted ==
    /\ pc = "as_completed"
    /\ \E i \in Finished \ yielded :
          /\ yielded' = yielded \cup {i}
          /\ IF futures[i].exception
             THEN /\ error' = "ScanError"
                  /\ pc' = "shutdown"
                  /\ UNCHANGED results
             ELSE /\ results' = Extend(results, futures[i].result)
                  /\ UNCHANGED <<pc, error>>
    /\ UNCHANGED <<scorer, status,
                   env, config, pageNo, cur, futures, fetched, files, summary,
                   now, prev>>

\* as_completed has yielded every future: the with block is left
AllCompleted ==
    /\ pc = "as_completed"
    /\ AllYielded
    /\ pc' = "shutdown"
    /\ UNCHANGED <<scorer, status,
                   env, config, results, error, pageNo, cur, futures, yielded,
                   fetched, files, summary, now, prev>>

\* shutdown(wait=False): the with block is left at once
JoinedNoWait == TRUE

\* shutdown(wait=True) returns: the workers have run every queued work item
\* and ended
Joined == Finished = DOMAIN futures

\* ThreadPoolExecutor.__exit__: shutdown(wait=True) joins the workers, which
\* first run every queued work item; then the pending exception is re-raised
Shutdown ==
    /\ pc = "shutdown"
    /\ Joined
    /\ pc' = IF error = "none" THEN "export_results" ELSE "raised"
    /\ UNCHANGED <<scorer, status,
                   env, config, results, error, pageNo, cur, futures, yielded,
                   fetched, files, summary, now, prev>>

\* --------------------------------------------------------- export_results
TicksPerSecond == 2

\* datetime.now().strftime('%Y%m%d_%H%M%S'): the clock cut to whole seconds
Strftime(t) == t \div TicksPerSecond

\* f"findings_{self.bucket_name}_{...}" plus the extension
FileName == [stamp |-> Strftime(now), ext |-> export_format]

\* if not self.export_format: return
ExportSkippedFormatOnly == export_format = "none"

\* if not self.export_format or not self.results: return
ExportSkipped == export_format = "none" \/ results = <<>>

\* self.export_results() and the "Scan complete" log line
ExportResults ==
    /\ pc = "export_results"
    /\ IF ExportSkipped
       THEN UNCHANGED files
       ELSE files' = {f \in files : f.name # FileName}
                        \cup {[name |-> FileName, records |-> results]}
    /\ summary' = Len(results)
    /\ pc' = "done"
    /\ UNCHANGED <<scorer, status,
                   env, config, results, error, pageNo, cur, futures, yielded,
                   fetched, now, prev>>

\* the write error caught and logged inside export_results
ExportFailSwallowed ==
    /\ pc = "export_results"
    /\ ~ExportSkipped
    /\ error' = "OSError"
    /\ summary' = Len(results)
    /\ pc' = "done"
    /\ UNCHANGED <<scorer, status, env, config, results, pageNo, cur, futures,
                   yielded, fetched, files, now, prev>>

\* open() or the write raises in export_results: the exception leaves run()
\* before the summary; a file that was opened is left truncated, with the
\* records written so far
ExportFail ==
    /\ pc = "export_results"
    /\ ~ExportSkipped
    /\ \/ UNCHANGED files
       \/ \E n \in 0..(Len(results) - 1) :
             files' = {f \in files : f.name # FileName}
                         \cup {[name |-> FileName,
                                records |-> SubSeq(results, 1, n)]}
    /\ error' = "OSError"
    /\ pc' = "raised"
    /\ UNCHANGED <<scorer, status,
                   env, config, results, pageNo, cur, futures,
                   yielded, fetched, summary, now, prev>>

\* the except branch of __main__ without its sys.exit(1)
ExitStatusAlwaysZero(err) == 0

\* sys.exit(1) in the except branch of __main__, else the normal end
ExitStatus(err) == IF err = "none" THEN 0 ELSE 1

\* __main__: scanner.run() has returned or raised and the process ends
Exit ==
    /\ pc \in {"done", "raised"}
    /\ status = -1
    /\ status' = ExitStatus(error)
    /\ UNCHANGED <<scorer, env, config, results, pc, error, pageNo, cur,
                   futures, yielded, fetched, files, summary, now, prev>>

\* time passes
Tick ==
    /\ now < MaxClock
    /\ now' = now + 1
    /\ UNCHANGED <<scorer, status,
                   env, config, results, pc, error, pageNo, cur, futures,
                   yielded, fetched, files, summary, prev>>

Next ==
    \/ ListPage
    \/ ListFail
    \/ ListEnd
    \/ Submit
    \/ WorkerStart
    \/ WorkerFinish
    \/ AsCompleted
    \/ AllCompleted
    \/ Shutdown
    \/ ExportResults
    \/ ExportFail
    \/ Exit
    \/ Tick

Spec == Init /\ [][Next]_vars

\* ------------------------------------------------------ fair scheduling
\* a step of the thread that runs run(): none of its calls blocks for ever
\* once it can return (the store answers every page request)
MainStep ==
    \/ ListPage
    \/ ListFail
    \/ ListEnd
    \/ Submit
    \/ AsCompleted
    \/ AllCompleted
    \/ Shutdown
    \/ ExportResults
    \/ ExportFail

\* the main thread and the pool's workers are scheduled fairly, and every
\* retrieval call returns or fails
Fairness ==
    /\ WF_vars(MainStep)
    /\ WF_vars(WorkerStart)
    /\ WF_vars(WorkerFinish)

\* run() and its workers alone, without the clock and the end of the process
NextRun == MainStep \/ WorkerStart \/ WorkerFinish

\* the runs whose termination is checked: every bucket, page layout, failing
\* object and pool size, exporting as json with the threshold of
\* test_scanner_findings
InitFair == Init /\ threshold = 4000000 /\ export_format = "json"

SpecFair == InitFair /\ [][NextRun]_vars /\ Fairness

\* ------------------------------------------------- the same bucket, twice
\* a second S3Scanner is built for the same bucket, threshold and export
\* format with the default concurrency, and its run() starts; the first
\* scanner keeps its results
Rerun ==
    /\ pc = "done"
    /\ prev = NoPrev
    /\ prev' = [threads |-> threads, results |-> results]
    /\ threads' = DefaultThreads
    /\ results' = <<>>
    /\ pc' = "paginate"
    /\ error' = "none"
    /\ pageNo' = 0
    /\ cur' = 0
    /\ futures' = <<>>
    /\ yielded' = {}
    /\ fetched' = {}
    /\ summary' = -1
    /\ status' = -1
    /\ UNCHANGED <<scorer, env, threshold, export_format, files, now>>

InitPair == Init /\ threads = 1

NextPair == Next \/ Rerun

SpecPair == InitPair /\ [][NextPair]_vars

\* ------------------------------------------------- the scorer on its own
Alphabet == {"a", "b"}

\* the strings scored: every string over the alphabet up to MaxDataLen, and
\* the runs of one character up to the end of the logarithm table
Inputs ==
    UNION {[1..n -> Alphabet] : n \in 0..MaxDataLen}
       \cup {[i \in 1..n |-> "a"] : n \in 1..Len(Log2Micro)}

InitEntropy ==
    /\ data \in Inputs
    /\ score = -1
    /\ pages = <<>>
    /\ broken = {}
    /\ threshold = DefaultThreshold
    /\ threads = DefaultThreads
    /\ export_format = "none"
    /\ NewScanner
    /\ files = {}
    /\ now = 0
    /\ prev = NoPrev
    /\ status = -1

\* calculate_shannon_entropy(data) is called and returns
CallScorer ==
    /\ score = -1
    /\ score' = calculate_shannon_entropy(data)
    /\ UNCHANGED <<data, status, env, config, results, pc, error, pageNo, cur,
                   futures, yielded, fetched, files, summary, now, prev>>

NextEntropy == CallScorer

SpecEntropy == InitEntropy /\ [][NextEntropy]_vars

\* ------------------------------------------------------------- properties
Range(seq) == {seq[i] : i \in DOMAIN seq}

\* a Finding without its capture timestamp
NoTime(f) == [key |-> f.key, line |-> f.line, entropy |-> f.entropy,
              data_preview |-> f.data_preview]

\* every key the paginator lists
ListedKeys == UNION {Range(pages[j]) : j \in DOMAIN pages}

\* the untrimmed line sequence of an object's decoded content
LinesOf(key) == SplitLines[Decode(ReadBody(Store[key]))]

RECURSIVE SumLen(_, _)
SumLen(fs, n) == IF n = 0 THEN 0 ELSE Len(fs[n].result) + SumLen(fs, n - 1)

\* the Findings the workers have produced
Produced == UNION {Range(futures[i].result) : i \in DOMAIN futures}

\* all of one object's Findings, in results
FindingsOf(key) == SelectSeq(results, LAMBDA f : f.key = key)

\* C1: a failed retrieval gives that object's scan an empty result and no
\* exception, run() is never failed by a scan, and when run() is done the
\* Findings of every other object are in results exactly as its scan
\* produced them.
C1_FailureIsolation ==
    /\ error # "ScanError"
    /\ \A i \in Finished :
          futures[i].key \in broken =>
             futures[i].result = <<>> /\ ~futures[i].exception
    /\ pc = "done" =>
          /\ \A k \in ListedKeys \ broken :
                \E i \in DOMAIN futures :
                   /\ futures[i].key = k
                   /\ FindingsOf(k) = futures[i].result
          /\ \A k \in broken : FindingsOf(k) = <<>>

\* a run is done in which the retrieval of one object was tried and failed
\* and another object's Findings are in results
C1_Witness ==
    /\ pc = "done"
    /\ Len(futures) >= 2
    /\ broken \cap fetched # {}
    /\ results # <<>>

\* C2: when run() is done, results holds exactly the Findings the dispatched
\* scans returned, each of them once.
C2_Completeness ==
    pc = "done" =>
       /\ Range(results) = Produced
       /\ Len(results) = SumLen(futures, Len(futures))
       /\ \A i, j \in DOMAIN results : results[i] = results[j] => i = j

\* a run is done in which two scans returned Findings
C2_Witness ==
    /\ pc = "done"
    /\ \E i, j \in DOMAIN futures :
          i # j /\ futures[i].result # <<>> /\ futures[j].result # <<>>

\* C3: run() reaches export_results (and so the summary and its return) only
\* once every page is listed, every listed object has a finished scan and
\* every Finding of every scan is merged into results.
C3_JoinBeforeExport ==
    (pc \in {"export_results", "done"} \/ summary # -1) =>
       /\ pageNo = Len(pages)
       /\ {futures[i].key : i \in DOMAIN futures} = ListedKeys
       /\ Finished = DOMAIN futures
       /\ yielded = DOMAIN futures
       /\ Range(results) = Produced
       /\ Len(results) = SumLen(futures, Len(futures))

\* export_results is about to be called after two scans, with Findings
C3_Witness ==
    /\ pc = "export_results"
    /\ Len(futures) >= 2
    /\ results # <<>>

\* C4: never more than `threads` scans are in progress.
C4_BoundedParallelism == Cardinality(Running) <= threads

\* every worker is busy while a submitted object waits in the queue
C4_Witness ==
    /\ Cardinality(Running) = threads
    /\ Pending # {}

\* the Findings of a sequence, without their timestamps
Content(rs) == {NoTime(f) : f \in Range(rs)}

\* both scanners are done, the first ran with 1 thread, the second with 10
BothDone == pc = "done" /\ prev.threads = 1 /\ threads = DefaultThreads

\* C5 as stated: the runs with concurrency 1 and 10 over the same objects
\* end with identical Finding sets, all five fields matching.
C5_SameFindings == BothDone => Range(results) = Range(prev.results)

\* C5, amended: the two runs end with Finding sets that match in key, line,
\* entropy and data_preview (the capture timestamps are each run's own).
C5_SameFindingsButTime == BothDone => Content(results) = Content(prev.results)

\* both runs are done with Findings, captured at different instants
C5_Witness ==
    /\ BothDone
    /\ results # <<>>
    /\ Range(results) # Range(prev.results)

\* C6: once a page request has failed, run() only shuts the pool down and
\* raises: export_results is never called, no artifact is written and no
\* summary is logged.
C6_FatalListing ==
    error = "ClientError" =>
       /\ pc \in {"shutdown", "raised"}
       /\ files = {}
       /\ summary = -1

\* run() has raised the listing error although a scan dispatched before the
\* failure produced Findings
C6_Witness ==
    /\ pc = "raised"
    /\ error = "ClientError"
    /\ \E i \in DOMAIN futures : futures[i].result # <<>>

\* the key's last characters, lower-cased, spell a skip-listed extension
SuffixMatches(key) ==
    \E ext \in SkipExts :
       /\ Len(ext) <= Len(key)
       /\ \A j \in 1..Len(ext) :
             LowerChar(key[Len(key) - Len(ext) + j]) = ext[j]

\* C7: a key with a skip-listed suffix (in any case) is never requested from
\* the store and its scan returns no Findings; a bucket of such keys only
\* ends with empty results and no retrieval call.
C7_SkipBeforeFetch ==
    /\ \A k \in fetched : ~SuffixMatches(k)
    /\ \A i \in Finished :
          SuffixMatches(futures[i].key) => futures[i].result = <<>>
    /\ (pc = "done" /\ \A k \in ListedKeys : SuffixMatches(k)) =>
          results = <<>> /\ fetched = {}

\* a run over skip-listed keys only, one of them in upper case, is done
C7_Witness ==
    /\ pc = "done"
    /\ Len(futures) >= 2
    /\ \A k \in ListedKeys : SuffixMatches(k)
    /\ \E k \in ListedKeys : Lower(k) # k

\* the trimmed source line of a Finding
CleanLineOf(f) == Strip(LinesOf(f.key)[f.line])

\* C8 as stated: the entropy recorded in every Finding of results (rounded
\* to 2 decimals) strictly exceeds the threshold.
C8_RecordedAboveThreshold ==
    \A i \in DOMAIN results : results[i].entropy * 10000 > threshold

\* C8, amended: the unrounded score of every Finding's line strictly
\* exceeds the threshold, and the recorded entropy is that score rounded to
\* 2 decimals, so it exceeds the threshold minus 0.005.
C8_ScoreAboveThreshold ==
    \A i \in DOMAIN results :
       LET e == calculate_shannon_entropy(CleanLineOf(results[i])) IN
       /\ e > threshold
       /\ results[i].entropy = Round2(e)
       /\ results[i].entropy * 10000 + 5000 > threshold

\* results holds a Finding whose recorded entropy does not exceed the
\* threshold
C8_Witness ==
    \E i \in DOMAIN results : results[i].entropy * 10000 <= threshold

IsSubstring(a, b) ==
    \E o \in 0..(Len(b) - Len(a)) : SubSeq(b, o + 1, o + Len(a)) = a

\* C9: the data_preview of every Finding is a prefix of the trimmed line
\* plus the ellipsis, and does not contain the full trimmed line.
C9_PreviewHidesLine ==
    \A i \in DOMAIN results :
       LET clean_line == CleanLineOf(results[i]) IN
       /\ \E n \in 0..PreviewLen :
             /\ n <= Len(clean_line)
             /\ results[i].data_preview = SubSeq(clean_line, 1, n) \o Ellipsis
       /\ ~IsSubstring(clean_line, results[i].data_preview)

\* the lines of an object that qualify: trimmed length >= 10, score > threshold
Qualifying(key) ==
    LET lines == LinesOf(key) IN
    {n \in DOMAIN lines :
        LET clean_line == Strip(lines[n]) IN
        /\ Len(clean_line) >= MinLineLen
        /\ calculate_shannon_entropy(clean_line) > threshold}

\* C10: the scan of a retrievable, non-skipped object returns one Finding
\* for each qualifying line and none for any other line, each with the
\* object's key and the line's 1-based position among the untrimmed lines.
C10_LineSelection ==
    \A i \in Finished :
       LET k == futures[i].key
           res == futures[i].result
           sel == Qualifying(k)
       IN (~SuffixMatches(k) /\ k \notin broken) =>
             /\ {f.line : f \in Range(res)} = sel
             /\ Len(res) = Cardinality(sel)
             /\ \A f \in Range(res) : f.key = k

\* one scan found some but not all lines of its object, the first of them
\* not line 1, and the scan of the object whose only line is too short found
\* nothing
C10_Witness ==
    /\ \E i \in Finished :
          /\ futures[i].result # <<>>
          /\ Len(futures[i].result) < Len(LinesOf(futures[i].key))
          /\ futures[i].result[1].line > 1
    /\ \E i \in Finished :
          /\ futures[i].key = Key_A
          /\ Key_A \notin broken
          /\ futures[i].result = <<>>

\* C11: a step taken while export_results is being called with no export
\* format or with empty results writes no artifact and changes neither the
\* results nor any other field of the scanner, and raises nothing.
C11_ExportNoOp ==
    [][(pc = "export_results" /\ (export_format = "none" \/ results = <<>>))
          => /\ files' = files
             /\ results' = results
             /\ error' = error
             /\ UNCHANGED <<config, futures, yielded, fetched>>]_vars

\* a run with an export format and no Findings is done, nothing written
C11_Witness ==
    /\ pc = "done"
    /\ export_format # "none"
    /\ futures # <<>>
    /\ results = <<>>
    /\ files = {}

\* both scanners ran to the end and each had Findings to export
BothExported ==
    /\ pc = "done"
    /\ prev # NoPrev
    /\ export_format # "none"
    /\ prev.results # <<>>
    /\ results # <<>>

\* C12: when two runs have exported, their artifacts have different names,
\* so the artifact of the first run is still there beside the second's.
C12_UniqueNames ==
    BothExported =>
       \E f, g \in files :
          /\ f.name # g.name
          /\ f.records = prev.results
          /\ g.records = results

\* C13: once the write of the artifact has failed, run() has raised (it
\* neither returns nor logs the summary), and results still holds every
\* Finding of the completed scan.
C13_ExportFailure ==
    error = "OSError" =>
       /\ pc = "raised"
       /\ summary = -1
       /\ Finished = DOMAIN futures
       /\ Range(results) = Produced
       /\ Len(results) = SumLen(futures, Len(futures))

\* run() has raised the write error of its export, with Findings in results
C13_Witness ==
    /\ pc = "raised"
    /\ error = "OSError"
    /\ results # <<>>

\* C14: in the results of a finished run, of two Findings with the same key
\* the one with the smaller line number comes first.
C14_LineOrder ==
    pc = "done" =>
       \A i, j \in DOMAIN results :
          (results[i].key = results[j].key /\ results[i].line < results[j].line)
             => i < j

\* a run is done whose results hold two Findings of one object
C14_Witness ==
    /\ pc = "done"
    /\ \E i, j \in DOMAIN results :
          i # j /\ results[i].key = results[j].key

\* C15 as stated: a normal run exits with status 0 after the summary; a
\* failed listing exits with a non-zero status that no other outcome has.
C15_DistinctStatus ==
    status # -1 =>
       /\ error = "none" => (status = 0 /\ summary = Len(results))
       /\ error = "ClientError" => status # 0
       /\ error # "ClientError" => status # 1

\* C15, amended: a normal run exits with status 0 after the summary; a
\* failed listing exits with status 1, which is non-zero and is the status
\* of every failure of run(), a failed export included.
C15_ExitStatus ==
    status # -1 =>
       /\ error = "none" => (status = 0 /\ summary = Len(results))
       /\ error = "ClientError" => (status = 1 /\ summary = -1)
       /\ error # "none" => status = 1

\* the process has exited after a failed listing
C15_Witness ==
    /\ status # -1
    /\ error = "ClientError"
    /\ pc = "raised"

\* C16: calculate_shannon_entropy returns 0 for the empty string and for
\* every string that repeats one character.
C16_DegenerateEntropy ==
    (score # -1 /\ \A i, j \in DOMAIN data : data[i] = data[j]) => score = 0

\* the scorer has returned for a run of one character longer than any mixed
\* string
C16_Witness ==
    /\ score # -1
    /\ Len(data) > MaxDataLen
    /\ \A i, j \in DOMAIN data : data[i] = data[j]

\* C17: results changes only in a step of the main thread in its
\* as_completed loop, which appends the whole result of one future not yet
\* yielded; no step of a worker (a change of a future) changes results.
C17_ExclusiveAppend ==
    [][results' # results =>
          /\ pc = "as_completed"
          /\ futures' = futures
          /\ \E i \in Finished \ yielded :
                /\ yielded' = yielded \cup {i}
                /\ results' = results \o futures[i].result]_vars

\* Findings have been appended while a worker is still running scan_object
C17_Witness ==
    /\ pc = "as_completed"
    /\ results # <<>>
    /\ Running # {}

\* C18: when run() has raised the listing error, every scan dispatched
\* before the failure has finished: none is left queued or running, and
\* none ended with an exception.
C18_DrainBeforeRaise ==
    (pc = "raised" /\ error = "ClientError") =>
       \A i \in DOMAIN futures :
          futures[i].state = "FINISHED" /\ ~futures[i].exception

\* run() has raised the listing error after a dispatched scan fetched its
\* object
C18_Witness ==
    /\ pc = "raised"
    /\ error = "ClientError"
    /\ futures # <<>>
    /\ fetched # {}

\* C19: under fair scheduling run() eventually returns or raises.
C19_Termination == <>(pc \in {"done", "raised"})

\* a run is done whose listing had a page without 'Contents' and in which
\* the retrieval of one object failed
C19_Witness ==
    /\ pc = "done"
    /\ \E j \in DOMAIN pages : pages[j] = <<>>
    /\ broken \cap fetched # {}

\* C20: while pages are still being listed, and after the listing has failed,
\* results is as __init__ left it: no Finding of a finished scan is in it.
C20_MergeAfterListing ==
    /\ pc \in {"paginate", "submit"} => results = <<>>
    /\ error = "ClientError" => results = <<>>

\* run() has raised the listing error, a dispatched scan has finished with
\* Findings, and results is empty
C20_Witness ==
    /\ pc = "raised"
    /\ error = "ClientError"
    /\ results = <<>>
    /\ \E i \in Finished : futures[i].result # <<>>

====
